---- MODULE Spec2Model ----
(***************************************************************************)
(* Sentiment Analysis API with authentication: the request handlers of     *)
(* routes/sentiment.py and routes/auth.py, the local analyzer wrapper of   *)
(* services/sentiment_analyzer.py and the HuggingFace client with its      *)
(* retry decorator of services/external_api.py.                            *)
(*                                                                         *)
(* Scores are fixed-point numbers in thousandths: 50 stands for 0.05,      *)
(* 1000 for 1.0.                                                           *)
(*                                                                         *)
(* The handlers are `async def` functions that never await: uvicorn runs   *)
(* them on one event loop (main.py:43), so a handler runs to its end       *)
(* before the next request is served. The one place where a handler waits  *)
(* is the blocking HTTP call of analyze_with_huggingface; the model gives  *)
(* each attempt of that call its own step, and no other request is served  *)
(* in between.                                                             *)
(***************************************************************************)
EXTENDS Integers, Sequences, FiniteSets

VARIABLES
    users,      \* rows of the User table
    history,    \* rows of the Analysis table, in insertion order
    pc,         \* "idle", or "hf" while analyze_with_huggingface is retrying
    req,        \* the analyze request being served (its user, text, provider)
    tries,      \* attempts analyze_with_huggingface has made for req
    calls,      \* how often req called each analyzer: [local, external]
    outcome,    \* how the analysis of req last ended: "return" or what was raised
    appended,   \* per user id, what that user's 200 analyze responses held
    response,   \* the last HTTP response sent to a caller
    HUGGINGFACE_API_KEY,  \* whether the environment sets the API key
    compound,   \* the score given to get_sentiment_label (SpecLabel only)
    returned    \* what get_sentiment_label returned for it (SpecLabel only)

vars == <<users, history, pc, req, tries, calls, outcome, appended, response,
          HUGGINGFACE_API_KEY, compound, returned>>

----------------------------------------------------------------------------
(* Bounds of the model *)

MaxHistory == 2
MaxCompound == 1000

(* Program constants *)

PosThreshold == 50
NegThreshold == -50
max_tries == 3

----------------------------------------------------------------------------
(* Values *)

\* Python's None
None == "<None>"

POSITIVE == "positive"
NEGATIVE == "negative"
NEUTRAL == "neutral"

HUGGINGFACE == "huggingface"
APIProvider == {HUGGINGFACE}

Usernames == {"alice", "bob", "carol"}
Emails == {"a@x.org", "b@x.org", "c@x.org"}
UserIds == 1..Cardinality(Usernames)
Texts == {"", "good"}
Providers == {None, "", "local", "huggingface", "HuggingFace", "azure"}

Abs(x) == IF x < 0 THEN -x ELSE x

\* str.lower() on the provider names of the model
lower(s) ==
    CASE s = "HuggingFace" -> "huggingface"
      [] s = "POSITIVE" -> "positive"
      [] s = "NEGATIVE" -> "negative"
      [] s = "LABEL_2" -> "label_2"
      [] OTHER -> s

----------------------------------------------------------------------------
(* services/sentiment_analyzer.py *)

\* What vader.polarity_scores may hand back: NLTK's VADER is a library, the
\* scores are its answer to the text. Proportions and compound in thousandths.
VaderScores ==
    { [neg |-> 0, neu |-> 1000, pos |-> 0,    compound |-> 0],
      [neg |-> 0, neu |-> 0,    pos |-> 1000, compound |-> 440] }

\* polarity_scores either answers or raises
VaderOutcomes ==
    { [raised |-> FALSE, scores |-> v] : v \in VaderScores }
    \cup { [raised |-> TRUE, scores |-> None] }

\* Mutant: the thresholds themselves excluded
get_sentiment_label_strict(compound_score) ==
    IF compound_score > PosThreshold THEN POSITIVE
    ELSE IF compound_score < NegThreshold THEN NEGATIVE
    ELSE NEUTRAL

get_sentiment_label(compound_score) ==
    IF compound_score >= PosThreshold THEN POSITIVE
    ELSE IF compound_score <= NegThreshold THEN NEGATIVE
    ELSE NEUTRAL

analyze(text, vader_scores) ==
    [ scores |-> [ positive |-> vader_scores.pos,
                   negative |-> vader_scores.neg,
                   neutral  |-> vader_scores.neu,
                   compound |-> vader_scores.compound ],
      label |-> get_sentiment_label(vader_scores.compound),
      text |-> text ]

\* analyze_text: the result of analyze, or Exception when anything below raised
analyze_text(text, vader) ==
    IF vader.raised
    THEN [raised |-> TRUE, value |-> None]
    ELSE [raised |-> FALSE, value |-> analyze(text, vader.scores)]

----------------------------------------------------------------------------
(* services/external_api.py *)

\* What requests.post may produce: a RequestException, or a response with a
\* status code and a JSON body. shape is "dict" for {...}, "list" for [{...}]
\* and "nested" for [[{...}]]; has_label and score_type tell which keys the
\* (first) object holds.
HFBody(shape, has_label, label, score_type, score) ==
    [ shape |-> shape, has_label |-> has_label, label |-> label,
      score_type |-> score_type, score |-> score ]

HFResponses ==
    { [error |-> TRUE, status_code |-> 0, json |-> None] }
    \cup { [error |-> FALSE, status_code |-> 503, json |-> None] }
    \cup { [error |-> FALSE, status_code |-> 200, json |-> b] : b \in
            { HFBody("dict", TRUE, "POSITIVE", "absent", 0),
              HFBody("list", TRUE, "NEGATIVE", "number", 990),
              HFBody("dict", TRUE, "LABEL_2", "number", 990),
              HFBody("dict", TRUE, "POSITIVE", "string", 0),
              HFBody("dict", FALSE, None, "absent", 0),
              HFBody("nested", TRUE, "POSITIVE", "number", 990) } }

SentimentResult(provider, text, sentiment, score, raw_response) ==
    [ provider |-> provider, text |-> text, sentiment |-> sentiment,
      score |-> score, raw_response |-> raw_response ]

Raise(kind) == [kind |-> kind, value |-> None]
Return(v) == [kind |-> "return", value |-> v]

\* Mutant: a body without a label is taken for a neutral result
huggingface_attempt_masking(text, key, resp) ==
    IF ~key THEN Raise("ExternalAPIError")
    ELSE IF resp.error THEN Raise("ExternalAPIError")
    ELSE IF resp.status_code # 200 THEN Raise("ExternalAPIError")
    ELSE IF resp.json.shape = "nested" \/ ~resp.json.has_label
         THEN Return(SentimentResult(HUGGINGFACE, text, NEUTRAL, 0, resp.json))
    ELSE LET result == resp.json
             sentiment == lower(result.label)
             score == IF result.score_type = "absent" THEN 0 ELSE result.score
             mapped == IF sentiment = "positive" THEN POSITIVE
                       ELSE IF sentiment = "negative" THEN NEGATIVE
                       ELSE NEUTRAL
             score_sign == IF sentiment = "positive" THEN 1
                           ELSE IF sentiment = "negative" THEN -1
                           ELSE 0
         IN  IF result.score_type = "string" THEN Raise("TypeError")
             ELSE Return(SentimentResult(HUGGINGFACE, text, mapped,
                                         Abs(score) * score_sign, result))

\* One attempt: the body of analyze_with_huggingface, without its decorator
huggingface_attempt(text, key, resp) ==
    IF ~key THEN Raise("ExternalAPIError")
    ELSE IF resp.error THEN Raise("ExternalAPIError")
    ELSE IF resp.status_code # 200 THEN Raise("ExternalAPIError")
    ELSE IF resp.json.shape = "nested" \/ ~resp.json.has_label
         THEN Raise("ExternalAPIError")
    ELSE LET result == resp.json
             sentiment == lower(result.label)
             score == IF result.score_type = "absent" THEN 0 ELSE result.score
             mapped == IF sentiment = "positive" THEN POSITIVE
                       ELSE IF sentiment = "negative" THEN NEGATIVE
                       ELSE NEUTRAL
             score_sign == IF sentiment = "positive" THEN 1
                           ELSE IF sentiment = "negative" THEN -1
                           ELSE 0
         IN  IF result.score_type = "string" THEN Raise("TypeError")
             ELSE Return(SentimentResult(HUGGINGFACE, text, mapped,
                                         Abs(score) * score_sign, result))

\* Mutant: max_tries counted as the number of retries
on_exception_retries(n, attempt) ==
    IF attempt.kind = "ExternalAPIError" /\ n <= max_tries THEN "retry"
    ELSE IF attempt.kind = "return" THEN "return"
    ELSE "raise"

\* backoff.on_exception(expo, (RequestException, ExternalAPIError), max_tries=3):
\* what the decorator does after an attempt that was number n of the call
on_exception(n, attempt) ==
    IF attempt.kind = "ExternalAPIError" /\ n < max_tries THEN "retry"
    ELSE IF attempt.kind = "return" THEN "return"
    ELSE "raise"

\* APIProvider(value): the enum member, or ValueError
APIProviderOf(value) ==
    IF value \in APIProvider THEN [raised |-> FALSE, value |-> value]
    ELSE [raised |-> TRUE, value |-> None]

\* analyze_with_external_api, lines 192-198: the provider string to the enum
api_provider(provider) ==
    IF provider # None /\ provider # ""
    THEN IF APIProviderOf(lower(provider)).raised
         THEN HUGGINGFACE
         ELSE APIProviderOf(lower(provider)).value
    ELSE None

\* SentimentAnalysisAPI.analyze up to its call of analyze_with_huggingface:
\* "call" when it goes on to the HuggingFace client, else the error it raises
analyze_dispatch(provider, key) ==
    IF provider # None /\ provider # HUGGINGFACE THEN "ExternalAPIError"
    ELSE IF key THEN "call"
    ELSE "ExternalAPIError"

\* analyze_with_external_api, lines 203-209: the dict built from the result
external_result(text, result) ==
    [ text |-> text, provider |-> result.provider,
      sentiment |-> result.sentiment, score |-> result.score,
      confidence |-> Abs(result.score) ]

----------------------------------------------------------------------------
(* routes/auth.py *)

Response(op, status_code, body) ==
    [op |-> op, status_code |-> status_code, body |-> body]

NoResponse == Response("none", 0, None)

\* auth.create_user: the new row, with the next id of the table
create_user(db, username, email) ==
    [id |-> Cardinality(db) + 1, username |-> username, email |-> email]

\* Mutant: the email lookup left out
register_check_username_only(db, username, email) ==
    IF \E u \in db : u.username = username THEN "Username already registered"
    ELSE "ok"

\* The two lookups of register_user: which check rejects the request, if any
register_check(db, username, email) ==
    IF \E u \in db : u.username = username THEN "Username already registered"
    ELSE IF \E u \in db : u.email = email THEN "Email already registered"
    ELSE "ok"

register_user(username, email) ==
    /\ pc = "idle"
    /\ LET check == register_check(users, username, email)
       IN  IF check = "ok"
           THEN /\ users' = users \cup {create_user(users, username, email)}
                /\ response' = Response("register", 200,
                                        create_user(users, username, email))
           ELSE /\ users' = users
                /\ response' = Response("register", 400, check)
    /\ UNCHANGED <<history, pc, req, tries, calls, outcome, appended,
                   HUGGINGFACE_API_KEY, compound, returned>>

----------------------------------------------------------------------------
(* routes/sentiment.py *)

HTTP_500_INTERNAL_SERVER_ERROR == Response("analyze", 500, None)

\* Mutant: "local" not told from a provider name
uses_external_any_name(provider) ==
    provider # None /\ provider # ""

\* The test of line 40: whether the request goes to the external provider
uses_external(provider) ==
    provider # None /\ provider # "" /\ provider # "local"

Analysis(text, sentiment_score, sentiment_label, user_id) ==
    [ text |-> text, sentiment_score |-> sentiment_score,
      sentiment_label |-> sentiment_label, user_id |-> user_id ]

\* Mutant: the confidence saved as the score
save_external_confidence(db, request, result, current_user) ==
    Append(db, Analysis(request.text, result.confidence, result.sentiment,
                        current_user.id))

\* Lines 44-51: the row saved on the external path
save_external(db, request, result, current_user) ==
    Append(db, Analysis(request.text, result.score, result.sentiment,
                        current_user.id))

\* Lines 60-67: the row saved on the local path
save_local(db, request, result, current_user) ==
    Append(db, Analysis(request.text, result.scores.compound, result.label,
                        current_user.id))

\* Lines 69-75: the body returned on the local path
local_response(request, result) ==
    [ text |-> request.text, sentiment |-> result.label,
      score |-> result.scores.compound,
      confidence |-> Abs(result.scores.compound), provider |-> "local" ]

Request(user, text, provider) ==
    [user |-> user, text |-> text, provider |-> provider]

NoRequest == Request(None, None, None)

\* The handler has its result: db.add, db.commit, return
finish(request, row_db, body) ==
    /\ history' = row_db
    /\ response' = Response("analyze", 200, body)
    /\ outcome' = "return"
    /\ appended' = [appended EXCEPT ![request.user.id] =
           Append(@, [text |-> body.text, sentiment |-> body.sentiment,
                      score |-> body.score])]

\* Mutant: the exception swallowed, the handler returns
fail_swallowed(why) ==
    /\ history' = history
    /\ response' = Response("analyze", 200, None)
    /\ outcome' = why
    /\ appended' = appended

\* The handler's except clause
fail(why) ==
    /\ history' = history
    /\ response' = HTTP_500_INTERNAL_SERVER_ERROR
    /\ outcome' = why
    /\ appended' = appended

\* POST /sentiment/analyze, up to its return or, on the external path with an
\* API key, up to the first attempt of analyze_with_huggingface
analyze_sentiment(user, text, provider, vader) ==
    /\ pc = "idle"
    /\ user \in users
    /\ Len(history) < MaxHistory
    /\ LET request == Request(user, text, provider)
       IN  IF uses_external(provider)
           THEN /\ calls' = [local |-> 0, external |-> 1]
                /\ IF analyze_dispatch(api_provider(provider),
                                       HUGGINGFACE_API_KEY) = "call"
                   THEN /\ pc' = "hf"
                        /\ req' = request
                        /\ response' = NoResponse
                        /\ outcome' = "none"
                        /\ UNCHANGED <<history, appended>>
                   ELSE /\ pc' = "idle"
                        /\ req' = NoRequest
                        /\ fail("no provider")
           ELSE /\ calls' = [local |-> 1, external |-> 0]
                /\ pc' = "idle"
                /\ req' = NoRequest
                /\ LET result == analyze_text(text, vader)
                   IN  IF result.raised
                       THEN fail("local analyzer raised")
                       ELSE finish(request,
                                   save_local(history, request, result.value, user),
                                   local_response(request, result.value))
    /\ tries' = 0
    /\ UNCHANGED <<users, HUGGINGFACE_API_KEY, compound, returned>>

\* One attempt of the decorated analyze_with_huggingface and what follows it:
\* a retry, or the rest of analyze, analyze_with_external_api and the handler
analyze_with_huggingface(resp) ==
    /\ pc = "hf"
    /\ LET attempt == huggingface_attempt(req.text, HUGGINGFACE_API_KEY, resp)
           next == on_exception(tries + 1, attempt)
       IN  /\ tries' = tries + 1
           /\ IF next = "retry"
              THEN /\ pc' = "hf"
                   /\ req' = req
                   /\ outcome' = attempt.kind
                   /\ UNCHANGED <<history, response, appended>>
              ELSE /\ pc' = "idle"
                   /\ req' = NoRequest
                   /\ IF next = "return"
                      THEN finish(req,
                                  save_external(history, req,
                                      external_result(req.text, attempt.value),
                                      req.user),
                                  external_result(req.text, attempt.value))
                      ELSE fail(attempt.kind)
    /\ UNCHANGED <<users, calls, HUGGINGFACE_API_KEY, compound, returned>>

\* Mutant: the filter on the user left out
user_analyses_all(db, current_user) ==
    db

\* Line 89: the rows of the current user
user_analyses(db, current_user) ==
    SelectSeq(db, LAMBDA analysis : analysis.user_id = current_user.id)

\* Lines 91-100: one row as it is returned
history_item(analysis) ==
    [ text |-> analysis.text, sentiment |-> analysis.sentiment_label,
      score |-> analysis.sentiment_score,
      confidence |-> Abs(analysis.sentiment_score), provider |-> "unknown" ]

\* GET /sentiment/history
get_analysis_history(user) ==
    /\ pc = "idle"
    /\ user \in users
    /\ LET analyses == user_analyses(history, user)
       IN  response' = Response("history", 200,
               [i \in 1..Len(analyses) |-> history_item(analyses[i])])
    /\ UNCHANGED <<users, history, pc, req, tries, calls, outcome, appended,
                   HUGGINGFACE_API_KEY, compound, returned>>

----------------------------------------------------------------------------
(* The service *)

\* Two users registered through register_user, as SpecAuth creates them
RegisteredUsers ==
    { [id |-> 1, username |-> "alice", email |-> "a@x.org"],
      [id |-> 2, username |-> "bob", email |-> "b@x.org"] }

Idle ==
    /\ history = <<>>
    /\ pc = "idle"
    /\ req = NoRequest
    /\ tries = 0
    /\ calls = [local |-> 0, external |-> 0]
    /\ outcome = "none"
    /\ appended = [id \in UserIds |-> <<>>]
    /\ response = NoResponse
    /\ returned = None

Init ==
    /\ Idle
    /\ users = RegisteredUsers
    /\ HUGGINGFACE_API_KEY \in BOOLEAN
    /\ compound = 0

Analyze == \E user \in users, text \in Texts, provider \in Providers,
              vader \in VaderOutcomes :
    analyze_sentiment(user, text, provider, vader)

Attempt == \E resp \in HFResponses : analyze_with_huggingface(resp)

History == \E user \in users : get_analysis_history(user)

Next == Analyze \/ Attempt \/ History

\* The sentiment routes, serving two registered users
Spec == Init /\ [][Next]_vars

\* Every HTTP attempt ends: requests.post returns or raises, and the backoff
\* sleep between two attempts is finite
FairSpec == Spec /\ WF_vars(Attempt)

----------------------------------------------------------------------------
(* Registration alone *)

InitAuth ==
    /\ Idle
    /\ users = {}
    /\ HUGGINGFACE_API_KEY = TRUE
    /\ compound = 0

Register == \E username \in Usernames, email \in Emails :
    register_user(username, email)

NextAuth == Register

SpecAuth == InitAuth /\ [][NextAuth]_vars

----------------------------------------------------------------------------
(* get_sentiment_label alone, on every compound score of the range *)

InitLabel ==
    /\ Idle
    /\ users = {}
    /\ HUGGINGFACE_API_KEY = TRUE
    /\ compound \in -MaxCompound..MaxCompound

Label ==
    /\ returned = None
    /\ returned' = get_sentiment_label(compound)
    /\ UNCHANGED <<users, history, pc, req, tries, calls, outcome, appended,
                   response, HUGGINGFACE_API_KEY, compound>>

NextLabel == Label

SpecLabel == InitLabel /\ [][NextLabel]_vars

----------------------------------------------------------------------------
(* What the claims speak of *)

\* An attempt whose HTTP exchange failed: a network failure, a status other
\* than 200, or a body that is not {label, score} or [{label, score}]
Failing(resp) ==
    \/ resp.error
    \/ resp.status_code # 200
    \/ resp.json.shape = "nested"
    \/ ~resp.json.has_label
    \/ resp.json.score_type = "string"

\* The provider values that select the local analyzer
LocalProviders == {None, "", "local"}

\* A step that serves POST /sentiment/analyze from its start
AnalyzeStep == pc = "idle" /\ (response'.op = "analyze" \/ pc' = "hf")

\* A step that serves it to its end without the HuggingFace client
AnalyzeEnds == pc = "idle" /\ response'.op = "analyze"

\* A step that is an attempt of analyze_with_huggingface
AttemptStep == pc = "hf"

\* The label the thresholds give a score
ThresholdLabel(score) ==
    IF score >= 50 THEN "positive"
    ELSE IF score <= -50 THEN "negative"
    ELSE "neutral"

----------------------------------------------------------------------------
(* C1: get_sentiment_label returns POSITIVE exactly when the score is at   *)
(* least 0.05, NEGATIVE exactly when it is at most -0.05 and NEUTRAL       *)
(* otherwise; 0.05 and -0.05 themselves are POSITIVE and NEGATIVE, 0.0 is  *)
(* NEUTRAL. Checked under SpecLabel.                                       *)
C1_LabelThresholds ==
    returned # None =>
        /\ (returned = POSITIVE <=> compound >= 50)
        /\ (returned = NEGATIVE <=> compound <= -50)
        /\ (returned = NEUTRAL <=> (compound > -50 /\ compound < 50))
        /\ (compound = 50 => returned = POSITIVE)
        /\ (compound = -50 => returned = NEGATIVE)
        /\ (compound = 0 => returned = NEUTRAL)

C1_Witness == compound = 50 /\ returned = POSITIVE

C3_AsClaimed ==
    [][AttemptStep => \A resp \in HFResponses :
        (/\ analyze_with_huggingface(resp)
         /\ pc' = "idle"
         /\ (Failing(resp) \/ lower(req.provider) # "huggingface"))
            => response'.status_code = 500]_vars

(* C3, amended: a call of analyze_with_external_api whose last attempt     *)
(* failed (network failure, non-200 or malformed response) ends in an      *)
(* error and returns no result; an unsupported provider name does not fail *)
(* the call, which then uses HuggingFace.                                  *)
C3_FailureRaises ==
    [][AttemptStep => \A resp \in HFResponses :
        (analyze_with_huggingface(resp) /\ pc' = "idle" /\ Failing(resp))
            => (response'.status_code = 500 /\ response'.body = None)]_vars

C3_Witness ==
    pc = "idle" /\ calls.external = 1 /\ outcome = "TypeError"
    /\ response.status_code = 500

(* C4: each analyze_sentiment request calls exactly one analyzer: the      *)
(* external provider alone when its provider is a non-empty name other     *)
(* than "local", the local analyzer alone when the provider is absent,     *)
(* empty or "local". That is: a step that starts a request leaves either   *)
(* the local analyzer called once and is the step of no request with an    *)
(* external provider, or the external one called once and is the step of   *)
(* no request with a local provider; the attempts that follow call no      *)
(* analyzer again.                                                         *)
C4_OneAnalyzer ==
    [][/\ AnalyzeStep =>
            \/ /\ calls' = [local |-> 1, external |-> 0]
               /\ \A u \in users, t \in Texts, v \in VaderOutcomes,
                     p \in Providers \ LocalProviders :
                        ~analyze_sentiment(u, t, p, v)
            \/ /\ calls' = [local |-> 0, external |-> 1]
               /\ \A u \in users, t \in Texts, v \in VaderOutcomes,
                     p \in LocalProviders :
                        ~analyze_sentiment(u, t, p, v)
       /\ AttemptStep => calls' = calls]_vars

C4_Witness ==
    /\ calls = [local |-> 0, external |-> 1]
    /\ response.op = "analyze" /\ response.status_code = 200

(* C5: a request that succeeds, on either path, appends exactly one record *)
(* holding the request's text, the score and label of the returned result  *)
(* and the requesting user's id, and leaves the records before it as they  *)
(* were.                                                                   *)
C5_OneRecordAppended ==
    [][/\ (AnalyzeEnds /\ response'.status_code = 200) =>
            \A u \in users, t \in Texts, p \in Providers, v \in VaderOutcomes :
                analyze_sentiment(u, t, p, v)
                    => history' = Append(history,
                            Analysis(t, response'.body.score,
                                     response'.body.sentiment, u.id))
       /\ (AnalyzeStep /\ pc' = "hf") =>
            \A u \in users, t \in Texts, p \in Providers, v \in VaderOutcomes :
                analyze_sentiment(u, t, p, v)
                    => (req' = Request(u, t, p) /\ history' = history)
       /\ (AttemptStep /\ response'.status_code = 200) =>
            \A resp \in HFResponses :
                analyze_with_huggingface(resp)
                    => history' = Append(history,
                            Analysis(req.text, response'.body.score,
                                     response'.body.sentiment, req.user.id))]_vars

C5_Witness ==
    /\ Len(history) = 2
    /\ history[1].user_id # history[2].user_id
    /\ response.op = "analyze" /\ response.status_code = 200
    /\ response.body.provider = HUGGINGFACE
    /\ response.body.score = history[2].sentiment_score

(* C6: every result analyze_sentiment returns or stores has the label the  *)
(* thresholds give its score: positive exactly from 0.05 up, negative      *)
(* exactly from -0.05 down, neutral between.                               *)
C6_LabelMatchesScore ==
    /\ \A i \in 1..Len(history) :
        history[i].sentiment_label = ThresholdLabel(history[i].sentiment_score)
    /\ (response.op = "analyze" /\ response.status_code = 200) =>
        response.body.sentiment = ThresholdLabel(response.body.score)

(* C8: a request that fails (the attempts are used up, no provider is      *)
(* available, the local analyzer raises) is answered with HTTP 500 and     *)
(* leaves the history as it was.                                           *)
C8_FailureLeavesHistory ==
    [][/\ AnalyzeEnds =>
            \A u \in users, t \in Texts, p \in Providers, v \in VaderOutcomes :
                (/\ analyze_sentiment(u, t, p, v)
                 /\ (p \notin LocalProviders \/ v.raised))
                    => (response'.status_code = 500 /\ history' = history)
       /\ AttemptStep =>
            \A resp \in HFResponses :
                (analyze_with_huggingface(resp) /\ pc' = "idle" /\ Failing(resp))
                    => (response'.status_code = 500 /\ history' = history)]_vars

C8_Witness ==
    /\ response.op = "analyze" /\ response.status_code = 500
    /\ Len(history) >= 1
    /\ outcome \in {"ExternalAPIError", "no provider", "local analyzer raised"}

(* C9: get_analysis_history answers a user with exactly what that user's   *)
(* successful analyses stored, in order: none is missing and none of       *)
(* another user is among them.                                             *)
C9_OwnHistory ==
    [][(pc = "idle" /\ response'.op = "history") =>
        \A u \in users :
            get_analysis_history(u) =>
                response'.body =
                    [i \in 1..Len(appended[u.id]) |->
                        [ text |-> appended[u.id][i].text,
                          sentiment |-> appended[u.id][i].sentiment,
                          score |-> appended[u.id][i].score,
                          confidence |-> Abs(appended[u.id][i].score),
                          provider |-> "unknown" ]]]_vars

C9_Witness ==
    /\ response.op = "history"
    /\ Len(response.body) = 1
    /\ Len(history) = 2

(* C10: no two stored users share a username or an email: a registration   *)
(* whose username or email is stored is answered 400 and changes nothing,  *)
(* any other creates one user with that username and email. Checked under  *)
(* SpecAuth.                                                               *)
C10_UniqueUsers ==
    /\ [](\A a \in users, b \in users :
            a # b => (a.username # b.username /\ a.email # b.email))
    /\ [][\A n \in Usernames, e \in Emails :
            register_user(n, e) =>
                IF \E u \in users : u.username = n \/ u.email = e
                THEN response'.status_code = 400 /\ users' = users
                ELSE /\ response'.status_code = 200
                     /\ \E new \in users' :
                            /\ new \notin users
                            /\ new.username = n /\ new.email = e
                            /\ users' = users \cup {new}]_vars

C10_Witness ==
    /\ Cardinality(users) = 3
    /\ response.op = "register" /\ response.status_code = 400

====
